---- MODULE Spec2Model ----
(***************************************************************************)
(* A model of BoolODE/run_experiment.py: the single-cell simulation worker *)
(* simulateAndSample, the Experiment orchestrator (parallel and sequential *)
(* fan-out, aggregation, read-back of the per-cell files, clustering) and  *)
(* the perturbation orchestrator startPerturbations.                       *)
(*                                                                         *)
(* Python strings are sequences of one-character strings, Python lists are *)
(* sequences (list index i is position i+1), dicts are functions.  Floats  *)
(* are integers in units of 0.01 (1.0 is 100, 20. is 2000, 0.01 is 1).     *)
(***************************************************************************)
EXTENDS Integers, Sequences, FiniteSets, TLC

(***************************************************************************)
(* Bounds of the model.                                                    *)
(***************************************************************************)
\* settings['num_cells'] ranges over 1..MaxCells
MaxCells == 2
\* len(tspan) ranges over 1..MaxT
MaxT == 3
\* the integrator yields at most MaxFaults degenerate or failing
\* trajectories in one behaviour
MaxFaults == 2

(***************************************************************************)
(* Python string operations.                                               *)
(***************************************************************************)
DigitChar == <<"0", "1", "2", "3", "4", "5", "6", "7", "8", "9">>

\* str(n) for an int n >= 0
RECURSIVE Str(_)
Str(n) == IF n < 10 THEN <<DigitChar[n + 1]>>
          ELSE Str(n \div 10) \o <<DigitChar[(n % 10) + 1]>>

IsDigit(c) == \E d \in 1..10 : DigitChar[d] = c

DigitVal(c) == (CHOOSE d \in 1..10 : DigitChar[d] = c) - 1

\* int(s) succeeds when s is a non-empty run of digits
IntOk(s) == Len(s) > 0 /\ \A i \in 1..Len(s) : IsDigit(s[i])

RECURSIVE IntOf(_)
IntOf(s) == IF Len(s) = 0 THEN 0
            ELSE 10 * IntOf(SubSeq(s, 1, Len(s) - 1)) + DigitVal(s[Len(s)])

\* s.startswith(sub)
StartsWith(s, sub) == Len(sub) <= Len(s) /\ SubSeq(s, 1, Len(sub)) = sub

\* sub in s
Contains(sub, s) ==
    \E i \in 1..(Len(s) - Len(sub) + 1) : SubSeq(s, i, i + Len(sub) - 1) = sub

\* s.replace(old, new): every non-overlapping occurrence, left to right
RECURSIVE Replace(_, _, _)
Replace(s, old, new) ==
    IF Len(s) = 0 THEN <<>>
    ELSE IF StartsWith(s, old)
         THEN new \o Replace(SubSeq(s, Len(old) + 1, Len(s)), old, new)
         ELSE <<s[1]>> \o Replace(Tail(s), old, new)

\* sep.join(parts)
RECURSIVE Join(_, _)
Join(sep, parts) ==
    IF Len(parts) = 0 THEN <<>>
    ELSE IF Len(parts) = 1 THEN parts[1]
    ELSE parts[1] \o sep \o Join(sep, Tail(parts))

\* the code points of the characters that occur in names and labels
Ord(c) ==
    CASE c = " " -> 32 [] c = "," -> 44 [] c = "-" -> 45 [] c = "." -> 46
      [] c = "/" -> 47 [] IsDigit(c) -> 48 + DigitVal(c) [] c = "E" -> 69
      [] c = "[" -> 91 [] c = "]" -> 93 [] c = "_" -> 95 [] c = "g" -> 103
      [] c = "l" -> 108 [] c = "m" -> 109 [] c = "p" -> 112 [] c = "q" -> 113
      [] c = "x" -> 120 [] OTHER -> 127

\* a < b for Python strings
RECURSIVE StrLess(_, _)
StrLess(a, b) ==
    IF Len(b) = 0 THEN FALSE
    ELSE IF Len(a) = 0 THEN TRUE
    ELSE IF a[1] = b[1] THEN StrLess(Tail(a), Tail(b))
    ELSE Ord(a[1]) < Ord(b[1])

\* sorted(list of distinct strings)
Sorted(l) == SortSeq(l, StrLess)

\* str(l) for a list l of ints: '[1, 2]'
StrList(l) ==
    <<"[">> \o Join(<<",", " ">>, [i \in 1..Len(l) |-> Str(l[i])]) \o <<"]">>

\* the elements of a sequence
Range(s) == {s[i] : i \in 1..Len(s)}

\* sum(l)
RECURSIVE SumSeq(_)
SumSeq(s) == IF Len(s) = 0 THEN 0 ELSE s[1] + SumSeq(Tail(s))

\* l[i] for a Python index i
At(l, i) == l[i + 1]

\* range(a, b)
PyRange(a, b) == [k \in 1..(IF b > a THEN b - a ELSE 0) |-> a + k - 1]

(***************************************************************************)
(* String literals of the program.                                         *)
(***************************************************************************)
XPrefix == <<"x", "_">>
PPrefix == <<"p", "_">>
XGPrefix == <<"x", "_", "g">>
SimDir == <<"/", "s", "i", "m", "u", "l", "a", "t", "i", "o", "n", "s", "/">>
CsvExt == <<".", "c", "s", "v">>
CellCsvExt == <<"-", "c", "e", "l", "l", ".", "c", "s", "v">>
ClusterIdsCsv ==
    <<"/", "C", "l", "u", "s", "t", "e", "r", "I", "d", "s", ".", "c", "s", "v">>
PerturbationDir ==
    <<"/", "P", "e", "r", "t", "u", "r", "b", "a", "t", "i", "o", "n", "_">>

(***************************************************************************)
(* The model handed to the program (the GenerateModel object mg).          *)
(***************************************************************************)
\* the name of gene number i
GeneName(i) == <<"g">> \o Str(i)

\* names of kinetic parameters of gene g: m_<g> is the one a perturbation
\* scales, l_x_<g> stands for every other parameter
ParM(g) == <<"m", "_">> \o g
ParL(g) == <<"l", "_", "x", "_">> \o g

\* mg.kineticParameterDefaults['x_max'], in units of 0.01
XMax == 200

\* a model with the genes numbered gids (a list) and the proteins prots:
\* the variable map holds x_<g> for every gene, then p_<p> for every listed
\* protein, then, when withP, p_<g> for every gene
MakeModel(gids, prots, withP) ==
    LET genes == [k \in 1..Len(gids) |-> GeneName(gids[k])]
    IN  [varmapper |-> [k \in 1..Len(genes) |-> XPrefix \o genes[k]]
                       \o [k \in 1..Len(prots) |-> PPrefix \o prots[k]]
                       \o (IF withP
                           THEN [k \in 1..Len(genes) |-> PPrefix \o genes[k]]
                           ELSE <<>>),
         genelist |-> genes,
         proteinlist |-> prots,
         pars |-> [n \in {ParM(genes[k]) : k \in 1..Len(genes)}
                         \cup {ParL(genes[k]) : k \in 1..Len(genes)} |->
                      IF n[1] = "m" THEN 20 + IntOf(SubSeq(n, 4, Len(n))) ELSE 5],
         x_max |-> XMax]

VARIABLES
    mg,           \* the model: varmapper, genelist, proteinlist, pars, x_max
    tspan,        \* the array of time points
    settings,     \* the job settings dictionary
    icsDF,        \* Experiment's initial-condition source
    init_seed,    \* Experiment's init_seed argument
    ex,           \* the frame of the running Experiment call
    job,          \* per cell id: the simulateAndSample invocation
    fs,           \* the file system: path -> the table stored there
    noise,        \* the randomness of the integrator and of numpy
    faults,       \* number of degenerate or failing trajectories so far
    sp,           \* the frame of startPerturbations
    previous_run, \* the dictionary startRun returned
    first         \* what the first of two equal Experiment calls returned

vars == <<mg, tspan, settings, icsDF, init_seed, ex, job, fs, noise, faults,
          sp, previous_run, first>>

Cells == 0..(settings.num_cells - 1)

(***************************************************************************)
(* The collaborators of BoolODE/simulator.py and BoolODE/utils.py.         *)
(***************************************************************************)
\* simulator.getInitialCondition: the adjusted initial vector, opaque
getInitialCondition(ss) == [vec |-> ss, adjusted |-> TRUE]

\* a vector used verbatim as the integrator's initial condition
Verbatim(ss) == [vec |-> ss, adjusted |-> FALSE]

\* the noise the integrator adds is drawn modulo MixMod
MixMod == 7

\* the seed- and input-dependent part of the value of species i at time t
Mix(y0, pars, seed, i, t) ==
    (seed + 2 * i + 3 * t + SumSeq(y0.vec) + (IF y0.adjusted THEN 1 ELSE 0)
       + SumSeq(pars)) % MixMod

\* The outcomes of one integration over nT time points: the trajectory
\* stays expressed ("ok"), collapses below a tenth of x_max from the first
\* or from the last time point after t0 on ("dies"), or a floating-point
\* error is raised ("raise", numpy being set to raise them).
Shapes(nT) ==
    {[kind |-> "ok", at |-> 0], [kind |-> "raise", at |-> 0]}
    \cup {[kind |-> "dies", at |-> d] : d \in {1, nT - 1} \cap 1..(nT - 1)}

\* simulator.simulateModel: the trajectory, one row per time point and one
\* column per species, of an integration with outcome shape
simulateModel(shape, y0, pars, nT, seed) ==
    [t \in 1..nT |->
        [i \in 1..Len(y0.vec) |->
            LET mix == Mix(y0, pars, seed, i - 1, t - 1)
            IN  IF shape.kind = "dies" /\ t - 1 >= shape.at
                THEN (XMax \div 10) - 1 - mix
                ELSE (XMax \div 10) + mix]]

\* P.T of a matrix given as a list of rows
Transpose(m) ==
    IF Len(m) = 0 THEN <<>>
    ELSE [i \in 1..Len(m[1]) |-> [t \in 1..Len(m) |-> m[t][i]]]

\* m[rows,:][:,cols] for lists of Python indices
SubMatrix(m, rows, cols) ==
    [r \in 1..Len(rows) |-> [c \in 1..Len(cols) |-> At(At(m, rows[r]), cols[c])]]

\* the label 'E<cellid>_<time>' of a column
ColLabel(cellid, time) == <<"E">> \o Str(cellid) \o <<"_">> \o Str(time)

\* utils.sampleCellFromTraj followed by .T: one column, labelled
\* header[cellid], holding the genes (and the proteins when writeProtein) at
\* the time point the label names
sampleCellFromTraj(cellid, P, varmapper, genelist, proteinlist, header, writeProtein) ==
    LET label == At(header, cellid)
        time == IntOf(SubSeq(label, Len(Str(cellid)) + 3, Len(label)))
        names == [k \in 1..Len(genelist) |-> XPrefix \o genelist[k]]
                 \o (IF writeProtein
                     THEN [k \in 1..Len(proteinlist) |-> PPrefix \o proteinlist[k]]
                     ELSE <<>>)
        row(n) == CHOOSE i \in 1..Len(varmapper) : varmapper[i] = n
    IN  [index |-> genelist \o (IF writeProtein THEN proteinlist ELSE <<>>),
         columns |-> <<label>>,
         data |-> [k \in 1..Len(names) |-> <<At(P[row(names[k])], time)>>]]

(***************************************************************************)
(* simulateAndSample: one invocation per cell id.                          *)
(***************************************************************************)
\* the path of the per-cell file the worker writes
CellFile(outPrefix, cellid) == outPrefix \o SimDir \o <<"E">> \o Str(cellid) \o CsvExt

\* the path of the sampled-cell file the worker writes
SampleFile(outPrefix, cellid) ==
    outPrefix \o SimDir \o <<"E">> \o Str(cellid) \o CellCsvExt

\* a variant that keeps the time point t0
TpsFromZero(ts) == PyRange(0, Len(ts))

\* tps = [i for i in range(1, len(tspan))]
Tps(ts) == PyRange(1, Len(ts))

\* gid = [i for i, n in varmapper.items() if 'x_' in n]
Gid(varmapper) ==
    SelectSeq(PyRange(0, Len(varmapper)), LAMBDA i : Contains(XPrefix, At(varmapper, i)))

\* alls = [i for i, n in varmapper.items()]
Alls(varmapper) == PyRange(0, Len(varmapper))

\* pars = [pars[k] for k in parNames]
ParList(allParameters, parNames) ==
    [k \in 1..Len(parNames) |-> allParameters[parNames[k]]]

\* the frame of a worker when the retry loop is entered
WorkerEntry(args) ==
    [pc |-> "running", args |-> args, seed |-> args.seed, trys |-> 0,
     retry |-> TRUE, P |-> <<>>, y0 |-> <<>>, seeds |-> <<>>,
     ret |-> <<>>, exc |-> "none"]

\* a worker that has not been called
NoWorker ==
    [pc |-> "idle", args |-> <<>>, seed |-> 0, trys |-> 0, retry |-> TRUE,
     P |-> <<>>, y0 |-> <<>>, seeds |-> <<>>, ret |-> <<>>, exc |-> "none"]

\* a variant that moves the seed on by one
NextSeedByOne(seed) == seed + 1

\* seed += 1000
NextSeed(seed) == seed + 1000

\* y0_exp: the adjusted template, or the supplied vector verbatim
Y0Exp(args) ==
    IF args.get_prot THEN getInitialCondition(args.ss) ELSE Verbatim(args.ss)

\* df = DataFrame(P[gid,:][:,tps], index=genelist, columns=E<cellid>_<i>)
GeneFrame(P, args) ==
    LET tps == Tps(args.tspan)
    IN  [index |-> args.genelist,
         columns |-> [k \in 1..Len(tps) |-> ColLabel(args.cellid, tps[k])],
         data |-> SubMatrix(P, Gid(args.varmapper), tps)]

\* df[col].max() for the k-th column
ColMax(df, k) ==
    CHOOSE v \in {df.data[r][k] : r \in 1..Len(df.data)} :
        \A r \in 1..Len(df.data) : df.data[r][k] <= v

\* a variant of the heuristic that retries only when every column is low
DegenerateEveryColumn(df, x_max) ==
    /\ Len(df.columns) > 0
    /\ \A k \in 1..Len(df.columns) : 10 * ColMax(df, k) < x_max

\* the heuristic: some column's maximum is below 0.1 * x_max
Degenerate(df, x_max) ==
    \E k \in 1..Len(df.columns) : 10 * ColMax(df, k) < x_max

\* return P[alls,:][:,tps[-1]], P[alls,:][:,:]
Returned(P, args) ==
    LET tps == Tps(args.tspan)
        alls == Alls(args.varmapper)
    IN  [final |-> [i \in 1..Len(alls) |-> At(At(P, alls[i]), tps[Len(tps)])],
         traj |-> SubMatrix(P, alls, PyRange(0, Len(args.tspan)))]

\* a variant of the loop that gives up at the second rejected attempt and
\* returns what it has
AfterAttemptGivesUp(w, shape) ==
    LET args == w.args
        seed == NextSeed(w.seed)
        y0 == Y0Exp(args)
        pars == ParList(args.allParameters, args.parNames)
        P == Transpose(simulateModel(shape, y0, pars, Len(args.tspan), seed))
        df == GeneFrame(P, args)
        retry == Degenerate(df, args.x_max) /\ w.trys < 1
        tried == [w EXCEPT !.seed = seed, !.y0 = y0,
                           !.seeds = Append(w.seeds, seed)]
    IN  IF shape.kind = "raise"
        THEN [tried EXCEPT !.pc = "raised", !.exc = "FloatingPointError"]
        ELSE IF retry
        THEN [tried EXCEPT !.P = P, !.retry = TRUE, !.trys = w.trys + 1]
        ELSE IF Len(Tps(args.tspan)) = 0
        THEN [tried EXCEPT !.P = P, !.retry = FALSE, !.trys = w.trys + 1,
                           !.pc = "raised", !.exc = "IndexError"]
        ELSE [tried EXCEPT !.P = P, !.retry = FALSE, !.trys = w.trys + 1,
                           !.pc = "returned", !.ret = Returned(P, args)]

\* the frame after one pass of the retry loop whose integration has the
\* outcome shape; the return statement follows an accepted pass
AfterAttempt(w, shape) ==
    LET args == w.args
        seed == NextSeed(w.seed)
        y0 == Y0Exp(args)
        pars == ParList(args.allParameters, args.parNames)
        P == Transpose(simulateModel(shape, y0, pars, Len(args.tspan), seed))
        df == GeneFrame(P, args)
        retry == Degenerate(df, args.x_max)
        tried == [w EXCEPT !.seed = seed, !.y0 = y0,
                           !.seeds = Append(w.seeds, seed)]
    IN  IF shape.kind = "raise"
        THEN [tried EXCEPT !.pc = "raised", !.exc = "FloatingPointError"]
        ELSE IF retry
        THEN [tried EXCEPT !.P = P, !.retry = TRUE, !.trys = w.trys + 1]
        ELSE IF Len(Tps(args.tspan)) = 0
        THEN [tried EXCEPT !.P = P, !.retry = FALSE, !.trys = w.trys + 1,
                           !.pc = "raised", !.exc = "IndexError"]
        ELSE [tried EXCEPT !.P = P, !.retry = FALSE, !.trys = w.trys + 1,
                           !.pc = "returned", !.ret = Returned(P, args)]

\* a variant in which a file that exists is not written again
AfterAttemptFilesKeepFirst(files, w, shape) ==
    LET args == w.args
        seed == NextSeed(w.seed)
        pars == ParList(args.allParameters, args.parNames)
        P == Transpose(simulateModel(shape, Y0Exp(args), pars, Len(args.tspan), seed))
        cell == CellFile(args.outPrefix, args.cellid) :> GeneFrame(P, args)
        sample == SampleFile(args.outPrefix, args.cellid) :>
                    sampleCellFromTraj(args.cellid, P, args.varmapper,
                                       args.genelist, args.proteinlist,
                                       args.header, args.writeProtein)
    IN  IF shape.kind = "raise" THEN files
        ELSE IF args.sampleCells THEN files @@ sample @@ cell
        ELSE files @@ cell

\* the files one pass of the retry loop leaves behind
AfterAttemptFiles(files, w, shape) ==
    LET args == w.args
        seed == NextSeed(w.seed)
        pars == ParList(args.allParameters, args.parNames)
        P == Transpose(simulateModel(shape, Y0Exp(args), pars, Len(args.tspan), seed))
        cell == CellFile(args.outPrefix, args.cellid) :> GeneFrame(P, args)
        sample == SampleFile(args.outPrefix, args.cellid) :>
                    sampleCellFromTraj(args.cellid, P, args.varmapper,
                                       args.genelist, args.proteinlist,
                                       args.header, args.writeProtein)
    IN  IF shape.kind = "raise" THEN files
        ELSE IF args.sampleCells THEN sample @@ cell @@ files
        ELSE cell @@ files

\* the outcomes the integrator may have for the next pass of worker w
Outcomes(w) ==
    LET key == <<Y0Exp(w.args), ParList(w.args.allParameters, w.args.parNames),
                 NextSeed(w.seed)>>
    IN  IF noise.on /\ key \in DOMAIN noise.tab
        THEN {noise.tab[key]}
        ELSE {sh \in Shapes(Len(w.args.tspan)) : sh.kind = "ok" \/ faults < MaxFaults}

\* the integrator's outcome is remembered when it is a function of its inputs
Remember(w, shape) ==
    LET key == <<Y0Exp(w.args), ParList(w.args.allParameters, w.args.parNames),
                 NextSeed(w.seed)>>
    IN  IF noise.on THEN [noise EXCEPT !.tab = (key :> shape) @@ noise.tab]
        ELSE noise

\* one pass of the while loop of the invocation for cell c
Attempt(c) ==
    /\ job[c].pc = "running"
    /\ \E shape \in Outcomes(job[c]) :
          /\ job' = [job EXCEPT ![c] = AfterAttempt(job[c], shape)]
          /\ fs' = AfterAttemptFiles(fs, job[c], shape)
          /\ noise' = Remember(job[c], shape)
          /\ faults' = IF shape.kind = "ok" THEN faults ELSE faults + 1
    /\ UNCHANGED <<mg, tspan, settings, icsDF, init_seed, ex, sp, previous_run, first>>

(***************************************************************************)
(* Experiment: set-up (lines 59-164).                                      *)
(***************************************************************************)
\* list(d.keys()), in some order
RECURSIVE Keys(_)
Keys(S) == IF S = {} THEN <<>>
           ELSE LET x == CHOOSE y \in S : TRUE IN <<x>> \o Keys(S \ {x})

\* parNames = sorted(list(allParameters.keys()))
ParNames(allParameters) == Sorted(Keys(DOMAIN allParameters))

\* the template: 1.0 in every x_ slot, 20. in the p_ slot of every listed
\* protein, 0 elsewhere
Template(m) ==
    [i \in 1..Len(m.varmapper) |->
        LET k == m.varmapper[i]
        IN  IF Contains(XPrefix, k) THEN 100
            ELSE IF Contains(PPrefix, k)
                    /\ Replace(k, PPrefix, <<>>) \in Range(m.proteinlist)
            THEN 2000
            ELSE 0]

\* icsmap = {g: v for g, v in zip(genes, values)}
IcsMap(row) ==
    [g \in Range(row.Genes) |->
        row.Values[CHOOSE k \in 1..Len(row.Genes) :
                      /\ row.Genes[k] = g
                      /\ \A j \in (k + 1)..Len(row.Genes) : row.Genes[j] /= g]]

\* the template after the override loops of lines 87-97: every listed
\* protein's p_ slot and every gene's x_ slot takes the override's value,
\* or 0.01 when the override does not name it
Override(m, ss, icsmap) ==
    [i \in 1..Len(ss) |->
        LET k == m.varmapper[i]
            isP == \E p \in Range(m.proteinlist) : k = PPrefix \o p
            isG == \E g \in Range(m.genelist) : k = XPrefix \o g
            g == SubSeq(k, 3, Len(k))
        IN  IF isG THEN (IF g \in DOMAIN icsmap THEN icsmap[g] ELSE 1)
            ELSE IF isP THEN (IF g \in DOMAIN icsmap THEN icsmap[g] ELSE 1)
            ELSE ss[i]]

\* type(icsDF) != list and not icsDF.empty
SingleSteadyState(ics) == ics.kind /= "list" /\ Len(ics.rows) > 0

\* does icsDF[0] of the else branch raise, and what: a table has no column
\* 0, an empty list has no element 0
FirstOfError(ics) ==
    IF ics.kind /= "list" THEN "KeyError"
    ELSE IF Len(ics.list) = 0 THEN "IndexError"
    ELSE "none"

\* the frame of an Experiment call before its first statement
Called ==
    [pc |-> "called", exc |-> "none", stage |-> "none", ss |-> <<>>,
     multi_ss |-> FALSE,
     argdict |-> <<>>, cellid |-> 0, states |-> <<>>, final_states |-> <<>>,
     avg_traj |-> <<>>, result |-> <<>>,
     groupedDict |-> [defined |-> FALSE, map |-> <<>>], ret |-> <<>>]

\* no Experiment call is active
NoCall == [Called EXCEPT !.pc = "idle"]

\* lines 69-101: the shared initial vector and the mode
SharedSS(m, ics) ==
    IF SingleSteadyState(ics)
    THEN Override(m, Template(m), IcsMap(ics.rows[1]))
    ELSE IF FirstOfError(ics) = "none" THEN ics.list[1] ELSE Template(m)

MultiSS(ics) == ~SingleSteadyState(ics)

\* lines 138-141
GetProt(multi_ss) == ~multi_ss

\* header = ['E' + str(cellid) + '_' + str(time) for cellid, time in ...]
Header(sampleAt, n) == [k \in 1..n |-> ColLabel(k - 1, sampleAt[k])]

\* lines 117-151: the argument bundle; seed and cellid are set per cell
ArgDict(m, ts, st, ss, multi_ss, header) ==
    [allParameters |-> m.pars,
     parNames |-> ParNames(m.pars),
     tspan |-> ts,
     varmapper |-> m.varmapper,
     genelist |-> m.genelist,
     proteinlist |-> m.proteinlist,
     writeProtein |-> st.writeProtein,
     outPrefix |-> st.outprefix,
     sampleCells |-> st.sample_cells,
     ss |-> ss,
     x_max |-> m.x_max,
     get_prot |-> GetProt(multi_ss),
     header |-> header,
     seed |-> -1,
     cellid |-> -1]

\* the frame after lines 59-164, sampleAt being numpy's draw of one time
\* index per cell
AfterSetup(m, ts, st, ics, sampleAt) ==
    LET multi_ss == MultiSS(ics)
        ss == SharedSS(m, ics)
        header == IF st.sample_cells THEN Header(sampleAt, st.num_cells) ELSE <<>>
        frame == [Called EXCEPT !.ss = ss, !.multi_ss = multi_ss]
    IN  IF multi_ss /\ FirstOfError(ics) /= "none"
        THEN [frame EXCEPT !.pc = "raised", !.stage = "setup",
                           !.exc = FirstOfError(ics)]
        ELSE IF Len(m.proteinlist) /= 0
        THEN [frame EXCEPT !.pc = "raised", !.stage = "setup",
                           !.exc = "NameError"]
        ELSE [frame EXCEPT
                !.pc = "fanout",
                !.argdict = ArgDict(m, ts, st, ss, multi_ss, header),
                !.groupedDict = [defined |-> ~st.sample_cells, map |-> <<>>]]

\* np.random.choice(timeIndex, size=num_cells): one time index per cell.
\* The draws considered start at the first or at the last time index and
\* move on by one from cell to cell; the same draw is made again when
\* numpy's generator is in the same state.
Draws ==
    IF noise.numpy /\ noise.choice /= <<>> THEN {noise.choice}
    ELSE IF settings.sample_cells
    THEN {[c \in 1..settings.num_cells |-> (c - 1 + k) % Len(tspan)] :
             k \in {0, Len(tspan) - 1}}
    ELSE {<<>>}

ExperimentSetup ==
    /\ ex.pc = "called"
    /\ \E sampleAt \in Draws :
          /\ ex' = AfterSetup(mg, tspan, settings, icsDF, sampleAt)
          /\ noise' = IF noise.numpy THEN [noise EXCEPT !.choice = sampleAt] ELSE noise
    /\ job' = [c \in Cells |-> NoWorker]
    /\ UNCHANGED <<mg, tspan, settings, icsDF, init_seed, fs, faults, sp,
                   previous_run, first>>

(***************************************************************************)
(* Experiment: the fan-out (lines 166-186).                                *)
(***************************************************************************)
\* a variant that leaves ss at the vector of the set-up, icsDF[0]
WithSharedSS(frame, ics, cellid) == frame.argdict

\* argdict["ss"] = icsDF[cellid] in multi-steady-state mode
WithCellSS(frame, ics, cellid) ==
    IF frame.multi_ss
    THEN [frame.argdict EXCEPT !.ss = At(ics.list, cellid)]
    ELSE frame.argdict

\* the seed handed to the worker of a cell
BaseSeed(cellid, seed0) == cellid + seed0

\* cell_args = dict(argdict, seed=cellid + init_seed, cellid=cellid)
CellArgs(argdict, cellid, seed0) ==
    [argdict EXCEPT !.seed = BaseSeed(cellid, seed0), !.cellid = cellid]

\* argdict['seed'] = cellid + init_seed; argdict['cellid'] = cellid
SeqArgs(argdict, cellid, seed0) ==
    [argdict EXCEPT !.seed = BaseSeed(cellid, seed0), !.cellid = cellid]

\* pool.apply_async(simulateAndSample, args=(cell_args,)) for the next cell
Dispatch ==
    /\ ex.pc = "fanout"
    /\ settings.doParallel
    /\ ex.cellid < settings.num_cells
    /\ LET argdict == WithCellSS(ex, icsDF, ex.cellid)
       IN  /\ job' = [job EXCEPT ![ex.cellid] =
                         WorkerEntry(CellArgs(argdict, ex.cellid, init_seed))]
           /\ ex' = [ex EXCEPT !.argdict = argdict, !.cellid = ex.cellid + 1]
    /\ UNCHANGED <<mg, tspan, settings, icsDF, init_seed, fs, noise, faults, sp,
                   previous_run, first>>

\* a variant that collects the jobs last to first
NextGetReversed(frame) == settings.num_cells - 1 - Len(frame.states)

\* which job the list comprehension of line 178 waits for
NextGet(frame) == Len(frame.states)

\* leaving the with block terminates the pool's remaining workers
Terminated(jobs) ==
    [c \in DOMAIN jobs |->
        IF jobs[c].pc = "running" THEN [jobs[c] EXCEPT !.pc = "terminated"]
        ELSE jobs[c]]

\* states = [job.get() for job in jobs]: one get, in submission order
Get ==
    /\ ex.pc = "fanout"
    /\ settings.doParallel
    /\ ex.cellid = settings.num_cells
    /\ LET i == NextGet(ex)
       IN  \/ /\ job[i].pc = "returned"
              /\ ex' = [ex EXCEPT
                          !.states = Append(ex.states, job[i].ret),
                          !.pc = IF i + 1 = settings.num_cells
                                 THEN "aggregate" ELSE "fanout"]
              /\ job' = job
           \/ /\ job[i].pc = "raised"
              /\ ex' = [ex EXCEPT !.pc = "raised", !.stage = "fanout",
                                   !.exc = job[i].exc]
              /\ job' = Terminated(job)
    /\ UNCHANGED <<mg, tspan, settings, icsDF, init_seed, fs, noise, faults, sp,
                   previous_run, first>>

\* lines 181-186: the sequential call of the worker of the next cell
SeqCall ==
    /\ ex.pc = "fanout"
    /\ ~settings.doParallel
    /\ ex.cellid < settings.num_cells
    /\ job[ex.cellid].pc = "idle"
    /\ LET argdict == SeqArgs(WithCellSS(ex, icsDF, ex.cellid), ex.cellid, init_seed)
       IN  /\ job' = [job EXCEPT ![ex.cellid] = WorkerEntry(argdict)]
           /\ ex' = [ex EXCEPT !.argdict = argdict]
    /\ UNCHANGED <<mg, tspan, settings, icsDF, init_seed, fs, noise, faults, sp,
                   previous_run, first>>

\* a variant that goes on to the next cell when a worker has raised
AfterCallIsolated(frame, w, n) ==
    IF w.pc = "returned"
    THEN [frame EXCEPT
            !.states = Append(frame.states, w.ret),
            !.cellid = frame.cellid + 1,
            !.pc = IF frame.cellid + 1 = n THEN "aggregate" ELSE "fanout"]
    ELSE [frame EXCEPT
            !.cellid = frame.cellid + 1,
            !.pc = IF frame.cellid + 1 = n THEN "aggregate" ELSE "fanout"]

\* the frame of Experiment after the call of worker w came back: its
\* result is appended, or its exception leaves Experiment
AfterCall(frame, w, n) ==
    IF w.pc = "returned"
    THEN [frame EXCEPT
            !.states = Append(frame.states, w.ret),
            !.cellid = frame.cellid + 1,
            !.pc = IF frame.cellid + 1 = n THEN "aggregate" ELSE "fanout"]
    ELSE [frame EXCEPT !.pc = "raised", !.stage = "fanout", !.exc = w.exc]

\* states.append(simulateAndSample(argdict)): the call returns or raises
SeqReturn ==
    /\ ex.pc = "fanout"
    /\ ~settings.doParallel
    /\ ex.cellid < settings.num_cells
    /\ job[ex.cellid].pc \in {"returned", "raised"}
    /\ ex' = AfterCall(ex, job[ex.cellid], settings.num_cells)
    /\ UNCHANGED <<mg, tspan, settings, icsDF, init_seed, job, fs, noise, faults,
                   sp, previous_run, first>>

(***************************************************************************)
(* Experiment: aggregation, read-back and clustering (lines 188-240).      *)
(***************************************************************************)
\* whole_t[::2,:]
EveryOtherRow(m) == [r \in 1..((Len(m) + 1) \div 2) |-> m[2 * r - 1]]

\* the entry-wise sum of two matrices of the same shape
MatAdd(a, b) == [r \in 1..Len(a) |-> [c \in 1..Len(a[r]) |-> a[r][c] + b[r][c]]]

\* the sum of whole_t[::2,:] over the first n states
RECURSIVE TrajSum(_, _)
TrajSum(states, n) ==
    IF n = 1 THEN EveryOtherRow(states[1].traj)
    ELSE MatAdd(TrajSum(states, n - 1), EveryOtherRow(states[n].traj))

\* lines 189-197: every summand is divided by n_traj = len(states); the
\* mean is kept as the sum and the divisor
Aggregate ==
    /\ ex.pc = "aggregate"
    /\ ex' = [ex EXCEPT
                !.final_states = [k \in 1..Len(ex.states) |-> ex.states[k].final],
                !.avg_traj = [sum |-> TrajSum(ex.states, Len(ex.states)),
                              n_traj |-> Len(ex.states)],
                !.pc = "concat"]
    /\ UNCHANGED <<mg, tspan, settings, icsDF, init_seed, job, fs, noise, faults,
                   sp, previous_run, first>>

\* the file Experiment reads back for a cell
ReadBackFile(outPrefix, cellid, sampling) ==
    outPrefix \o SimDir \o <<"E">> \o Str(cellid)
       \o (IF sampling THEN CellCsvExt ELSE CsvExt)

\* df.sort_index(): the rows in the order of their labels
SortIndex(df) ==
    LET order == SortSeq([k \in 1..Len(df.index) |-> k],
                         LAMBDA a, b : StrLess(df.index[a], df.index[b]))
    IN  [df EXCEPT !.index = [k \in 1..Len(order) |-> df.index[order[k]]],
                   !.data = [k \in 1..Len(order) |-> df.data[order[k]]]]

\* pd.concat([df.T ...], axis=0).T of frames with the same row labels
RECURSIVE ConcatFrames(_)
ConcatFrames(frames) ==
    IF Len(frames) = 1 THEN frames[1]
    ELSE LET rest == ConcatFrames(Tail(frames))
         IN  [index |-> frames[1].index,
              columns |-> frames[1].columns \o rest.columns,
              data |-> [r \in 1..Len(frames[1].index) |->
                          frames[1].data[r] \o rest.data[r]]]

\* newindices = [i.replace('x_', '') for i in indices]
StripX(df) ==
    [df EXCEPT !.index = [k \in 1..Len(df.index) |->
                             Replace(df.index[k], XPrefix, <<>>)]]

\* df.values.ravel()
Ravel(df) ==
    LET RECURSIVE flat(_)
        flat(rows) == IF Len(rows) = 0 THEN <<>> ELSE rows[1] \o flat(Tail(rows))
    IN  flat(df.data)

\* the frames read back, cell by cell
ReadFrames(files, outPrefix, n, sampling) ==
    [k \in 1..n |-> SortIndex(files[ReadBackFile(outPrefix, k - 1, sampling)])]

\* lines 205-220
Concat ==
    /\ ex.pc = "concat"
    /\ LET outPrefix == ex.argdict.outPrefix
           frames == ReadFrames(fs, outPrefix, settings.num_cells,
                                settings.sample_cells)
       IN  ex' = [ex EXCEPT
                    !.result = StripX(ConcatFrames(frames)),
                    !.groupedDict =
                        IF settings.sample_cells THEN ex.groupedDict
                        ELSE [defined |-> TRUE,
                              map |-> [k \in 1..Len(frames) |-> Ravel(frames[k])]],
                    !.pc = "cluster"]
    /\ UNCHANGED <<mg, tspan, settings, icsDF, init_seed, job, fs, noise, faults,
                   sp, previous_run, first>>

\* the table written to ClusterIds.csv: one row per column of groupedDF
ClusterFrame(grouped, labels) ==
    [index |-> [k \in 1..Len(grouped.map) |-> <<"E">> \o Str(k - 1)],
     columns |-> <<<<"c", "l">>>>,
     data |-> [k \in 1..Len(grouped.map) |-> <<labels[k]>>]]

\* lines 222-240: k-means when nClusters > 1, then the return
Cluster ==
    /\ ex.pc = "cluster"
    /\ \/ /\ settings.nClusters > 1
          /\ ex.groupedDict.defined
          /\ \E labels \in [1..Len(ex.groupedDict.map) -> 0..(settings.nClusters - 1)] :
                fs' = (ex.argdict.outPrefix \o ClusterIdsCsv
                         :> ClusterFrame(ex.groupedDict, labels)) @@ fs
          /\ ex' = [ex EXCEPT !.pc = "returned",
                      !.ret = <<ex.result, ex.final_states, ex.avg_traj>>]
       \/ /\ settings.nClusters > 1
          /\ ~ex.groupedDict.defined
          /\ ex' = [ex EXCEPT !.pc = "raised", !.stage = "cluster",
                               !.exc = "NameError"]
          /\ fs' = fs
       \/ /\ ~(settings.nClusters > 1)
          /\ ex' = [ex EXCEPT !.pc = "returned",
                      !.ret = <<ex.result, ex.final_states, ex.avg_traj>>]
          /\ fs' = fs
    /\ UNCHANGED <<mg, tspan, settings, icsDF, init_seed, job, noise, faults, sp,
                   previous_run, first>>

(***************************************************************************)
(* A call of Experiment on its own.                                        *)
(***************************************************************************)
\* settings['outprefix'] of the run
OutPrefix == <<"o">>

\* the gene numbers of the models Experiment is called with, in variable-map
\* order
ExperimentGenes == {<<1>>, <<2, 1>>}

\* the protein lists of the models Experiment is called with
ProteinLists == {<<>>, <<<<"q">>>>}

\* the initial-condition tables: none configured (empty), or one row that
\* names the first gene
IcsTables(m) ==
    {<<>>, <<[Genes |-> <<m.genelist[1]>>, Values |-> <<300>>]>>}

\* a list of per-cell initial vectors, one per cell
IcsList(m, n) == [c \in 1..n |-> [i \in 1..Len(m.varmapper) |-> 40 + 10 * c + i]]

\* the calls of Experiment: startRun passes the table it loaded and leaves
\* init_seed at 0, startPerturbations passes a list of vectors and init_seed=1
Calls(m, n) ==
    {[icsDF |-> [kind |-> "table", rows |-> r, list |-> <<>>], init_seed |-> 0] :
        r \in IcsTables(m)}
    \cup {[icsDF |-> [kind |-> "list", rows |-> <<>>, list |-> IcsList(m, n)],
           init_seed |-> 1]}

\* the integrator and numpy as black boxes: nothing is remembered
Unseeded == [on |-> FALSE, numpy |-> FALSE, tab |-> <<>>, choice |-> <<>>]

\* startPerturbations is not running
NoPerturbations ==
    [pc |-> "idle", level |-> 0, single |-> TRUE, gid |-> <<>>,
     list_perturbations |-> <<>>, k |-> 0, parNames |-> <<>>,
     init_pars |-> <<>>, init_out_prefix |-> <<>>, final_states |-> <<>>,
     avg_trajs |-> <<>>, exc |-> "none", at_call |-> <<>>, runs |-> <<>>]

\* no earlier Experiment call is remembered
NoFirst == [set |-> FALSE, pc |-> "none", ret |-> <<>>, handed |-> <<>>]

InitExperiment ==
    /\ \E gids \in ExperimentGenes, prots \in ProteinLists :
          mg = MakeModel(gids, prots, TRUE)
    /\ \E nT \in 1..MaxT : tspan = PyRange(0, nT)
    /\ \E n \in 1..MaxCells :
          /\ settings \in [num_cells : {n}, doParallel : BOOLEAN,
                           sample_cells : BOOLEAN, nClusters : {1, 2} \cap 1..n,
                           writeProtein : {FALSE}, outprefix : {OutPrefix}]
          /\ \E call \in Calls(mg, n) :
                /\ icsDF = call.icsDF
                /\ init_seed = call.init_seed
          /\ job = [c \in 0..(n - 1) |-> NoWorker]
    /\ ex = Called
    /\ fs = <<>>
    /\ sp = NoPerturbations
    /\ previous_run = <<>>
    /\ first = NoFirst

Init ==
    /\ InitExperiment
    /\ noise = Unseeded
    /\ faults = 0

NextExperiment ==
    \/ ExperimentSetup
    \/ Dispatch
    \/ Get
    \/ SeqCall
    \/ SeqReturn
    \/ \E c \in Cells : Attempt(c)
    \/ Aggregate
    \/ Concat
    \/ Cluster

Next == NextExperiment

Spec == Init /\ [][Next]_vars

(***************************************************************************)
(* Two calls of Experiment with the same inputs, one with doParallel true  *)
(* and one with doParallel false, the integrator and numpy being functions *)
(* of their inputs and seeds.                                              *)
(***************************************************************************)
\* the integrator is a function of initial vector, parameters and seed;
\* numpy's generator is, or is not, in the same state at both calls
Seeded == {[on |-> TRUE, numpy |-> b, tab |-> <<>>, choice |-> <<>>] : b \in BOOLEAN}

\* the arguments every worker was called with
Handed(jobs) == [c \in DOMAIN jobs |-> jobs[c].args]

\* the caller keeps what the call returned and calls Experiment again with
\* settings['doParallel'] flipped and everything else as before
CallAgain ==
    /\ ex.pc \in {"returned", "raised"}
    /\ ~first.set
    /\ first' = [set |-> TRUE, pc |-> ex.pc, ret |-> ex.ret, handed |-> Handed(job)]
    /\ settings' = [settings EXCEPT !.doParallel = ~settings.doParallel]
    /\ ex' = Called
    /\ job' = [c \in Cells |-> NoWorker]
    /\ UNCHANGED <<mg, tspan, icsDF, init_seed, fs, noise, faults, sp, previous_run>>

InitTwoRuns ==
    /\ InitExperiment
    /\ noise \in Seeded
    /\ faults = MaxFaults - 1

NextTwoRuns ==
    \/ NextExperiment
    \/ CallAgain

SpecTwoRuns == InitTwoRuns /\ [][NextTwoRuns]_vars

(***************************************************************************)
(* startPerturbations (lines 307-375).                                     *)
(***************************************************************************)
\* gid = [int(n.replace("x_g", "")) for i, n in mg.varmapper.items() if 'x_' in n]
GeneIds(varmapper) ==
    LET xs == SelectSeq(varmapper, LAMBDA n : Contains(XPrefix, n))
    IN  [k \in 1..Len(xs) |-> IntOf(Replace(xs[k], XGPrefix, <<>>))]

\* int() raises ValueError on a name that is not x_g<digits>
GeneIdsOk(varmapper) ==
    \A k \in 1..Len(varmapper) :
        Contains(XPrefix, varmapper[k]) =>
            IntOk(Replace(varmapper[k], XGPrefix, <<>>))

\* list_perturbations = [[i] for i in gid]
SingleList(gid) == [k \in 1..Len(gid) |-> <<gid[k]>>]

\* a variant of the pair loop that starts the inner loop at gid[i:]
RECURSIVE PairListFromSelf(_)
PairListFromSelf(gid) ==
    IF Len(gid) = 0 THEN <<>>
    ELSE [k \in 1..Len(gid) |-> <<gid[1], gid[k]>>] \o PairListFromSelf(Tail(gid))

\* for i, p1 in enumerate(gid): for p2 in gid[i+1:]: append([p1, p2])
RECURSIVE PairList(_)
PairList(gid) ==
    IF Len(gid) = 0 THEN <<>>
    ELSE [k \in 1..(Len(gid) - 1) |-> <<gid[1], gid[k + 1]>>] \o PairList(Tail(gid))

\* "m_g%i" % gene
DecayName(gene) == <<"m", "_", "g">> \o Str(gene)

\* apply_perturbation = lambda x: x * perturbation_level
ApplyPerturbation(x, level) == x * level

\* a variant that scales every parameter whose name starts with m_g<gene>
RECURSIVE PerturbedByPrefix(_, _, _)
PerturbedByPrefix(pars, genes, level) ==
    IF Len(genes) = 0 THEN pars
    ELSE PerturbedByPrefix([n \in DOMAIN pars |->
                               IF StartsWith(n, DecayName(genes[1]))
                               THEN ApplyPerturbation(pars[n], level) ELSE pars[n]],
                           Tail(genes), level)

\* lines 351-356: every parameter named m_g<gene> is scaled, gene by gene
RECURSIVE Perturbed(_, _, _)
Perturbed(pars, genes, level) ==
    IF Len(genes) = 0 THEN pars
    ELSE Perturbed([n \in DOMAIN pars |->
                       IF n = DecayName(genes[1])
                       THEN ApplyPerturbation(pars[n], level) ELSE pars[n]],
                   Tail(genes), level)

\* a variant that leaves the parameters as the re-run found them
NotRestored(pars, parNames, init_pars) == pars

\* lines 369-370: mg.ModelSpec['pars'][k] = init_pars[i]
Restored(pars, parNames, init_pars) ==
    [n \in DOMAIN pars |->
        IF \E i \in 1..Len(parNames) : parNames[i] = n
        THEN init_pars[CHOOSE i \in 1..Len(parNames) : parNames[i] = n]
        ELSE pars[n]]

\* "/Perturbation_" + "_".join(map(str, perturbations))
PerturbationSuffix(perturbations) ==
    PerturbationDir
       \o Join(<<"_">>, [k \in 1..Len(perturbations) |-> Str(perturbations[k])])

\* the key of avg_trajs
DynamicsPng(prefix, perturbations) ==
    prefix \o <<"/", "d", "y", "n", "a", "m", "i", "c", "s">>
       \o PerturbationSuffix(perturbations) \o <<".", "p", "n", "g">>

\* d[key] = value
Put(d, key, value) == (key :> value) @@ d

\* lines 311-348
PerturbationsSetup ==
    /\ sp.pc = "called"
    /\ IF GeneIdsOk(mg.varmapper)
       THEN LET gid == GeneIds(mg.varmapper)
                parNames == ParNames(mg.pars)
                lab == IF sp.single THEN <<0>> ELSE <<0, 0>>
            IN  sp' = [sp EXCEPT
                         !.pc = "loop",
                         !.gid = gid,
                         !.list_perturbations =
                             IF sp.single THEN SingleList(gid) ELSE PairList(gid),
                         !.k = 0,
                         !.parNames = parNames,
                         !.init_pars = ParList(mg.pars, parNames),
                         !.init_out_prefix = settings.outprefix,
                         !.final_states =
                             Put(<<>>, StrList(lab), previous_run.final_states),
                         !.avg_trajs = <<>>,
                         !.at_call = [pars |-> mg.pars,
                                      outprefix |-> settings.outprefix]]
       ELSE sp' = [sp EXCEPT !.pc = "raised", !.exc = "ValueError"]
    /\ UNCHANGED <<mg, tspan, settings, icsDF, init_seed, ex, job, fs, noise,
                   faults, previous_run, first>>

\* a variant that builds the directory on the current output prefix
RunPrefixNested(init_out_prefix, current, perturbations) ==
    current \o PerturbationSuffix(perturbations)

\* settings['outprefix'] = str(init_out_prefix) + "/Perturbation_" + ...
RunPrefix(init_out_prefix, current, perturbations) ==
    init_out_prefix \o PerturbationSuffix(perturbations)

\* lines 350-366: the parameters of the next combination are scaled, the
\* output prefix is set, and Experiment is called on the previous run's
\* final states with init_seed=1
PerturbationsCall ==
    /\ sp.pc = "loop"
    /\ sp.k < Len(sp.list_perturbations)
    /\ LET perturbations == sp.list_perturbations[sp.k + 1]
           outprefix == RunPrefix(sp.init_out_prefix, settings.outprefix, perturbations)
       IN  /\ mg' = [mg EXCEPT !.pars = Perturbed(mg.pars, perturbations, sp.level)]
           /\ settings' = [settings EXCEPT !.outprefix = outprefix]
           /\ sp' = [sp EXCEPT
                       !.pc = "experiment",
                       !.runs = Append(sp.runs, [perturbations |-> perturbations,
                                                 outprefix |-> outprefix,
                                                 pars |-> mg'.pars])]
    /\ icsDF' = [kind |-> "list", rows |-> <<>>, list |-> previous_run.final_states]
    /\ init_seed' = 1
    /\ ex' = Called
    /\ job' = [c \in Cells |-> NoWorker]
    /\ UNCHANGED <<tspan, fs, noise, faults, previous_run, first>>

\* a variant that puts the parameters back when Experiment raises
ParsAfterRaiseRestored(pars, parNames, init_pars) ==
    Restored(pars, parNames, init_pars)

\* the parameter table when an exception of Experiment passes through
\* line 360: no statement of startPerturbations runs after it
ParsAfterRaise(pars, parNames, init_pars) == pars

\* lines 367-370: the results are stored and the parameters put back; an
\* exception of Experiment leaves startPerturbations at once
PerturbationsResume ==
    /\ sp.pc = "experiment"
    /\ LET perturbations == sp.list_perturbations[sp.k + 1]
       IN  \/ /\ ex.pc = "returned"
              /\ sp' = [sp EXCEPT
                          !.pc = "loop",
                          !.k = sp.k + 1,
                          !.final_states =
                              Put(sp.final_states, StrList(perturbations), ex.ret[2]),
                          !.avg_trajs =
                              Put(sp.avg_trajs,
                                  DynamicsPng(sp.init_out_prefix, perturbations),
                                  ex.ret[3])]
              /\ mg' = [mg EXCEPT !.pars = Restored(mg.pars, sp.parNames, sp.init_pars)]
           \/ /\ ex.pc = "raised"
              /\ sp' = [sp EXCEPT !.pc = "raised", !.exc = ex.exc]
              /\ mg' = [mg EXCEPT !.pars = ParsAfterRaise(mg.pars, sp.parNames, sp.init_pars)]
    /\ ex' = NoCall
    /\ UNCHANGED <<tspan, settings, icsDF, init_seed, job, fs, noise, faults,
                   previous_run, first>>

\* lines 373-375
PerturbationsReturn ==
    /\ sp.pc = "loop"
    /\ sp.k = Len(sp.list_perturbations)
    /\ settings' = [settings EXCEPT !.outprefix = sp.init_out_prefix]
    /\ sp' = [sp EXCEPT !.pc = "returned"]
    /\ UNCHANGED <<mg, tspan, icsDF, init_seed, ex, job, fs, noise, faults,
                   previous_run, first>>

\* the gene numbers of the models startPerturbations is called with
PerturbationGenes == {<<1>>, <<0, 1>>, <<2, 12, 1>>}

\* perturbation_level
PerturbationLevels == {0, 2}

\* the final states of the run that startRun returned: one vector per cell
PreviousFinalStates(m, n) ==
    [c \in 1..n |->
        [i \in 1..Len(m.varmapper) |-> (XMax \div 10) + ((c + 2 * i) % MixMod)]]

\* startPerturbations is called on what a completed startRun returned
InitPerturbations ==
    /\ \E gids \in PerturbationGenes : mg = MakeModel(gids, <<>>, TRUE)
    /\ tspan = PyRange(0, 2)
    /\ \E n \in 1..MaxCells :
          /\ settings \in [num_cells : {n}, doParallel : BOOLEAN,
                           sample_cells : {FALSE}, nClusters : {1},
                           writeProtein : {FALSE}, outprefix : {OutPrefix}]
          /\ previous_run = [tspan |-> tspan,
                             final_states |-> PreviousFinalStates(mg, n)]
          /\ job = [c \in 0..(n - 1) |-> NoWorker]
    /\ icsDF = [kind |-> "table", rows |-> <<>>, list |-> <<>>]
    /\ init_seed = 0
    /\ \E level \in PerturbationLevels, single \in BOOLEAN :
          sp = [NoPerturbations EXCEPT !.pc = "called", !.level = level,
                                       !.single = single]
    /\ ex = NoCall
    /\ fs = <<>>
    /\ noise = Unseeded
    /\ faults = 0
    /\ first = NoFirst

NextPerturbations ==
    \/ PerturbationsSetup
    \/ PerturbationsCall
    \/ PerturbationsResume
    \/ PerturbationsReturn
    \/ NextExperiment

SpecPerturbations == InitPerturbations /\ [][NextPerturbations]_vars

(***************************************************************************)
(* Properties.                                                             *)
(***************************************************************************)
\* the rows of a trajectory that belong to gene species
GeneRows(varmapper) ==
    {i \in 1..Len(varmapper) : SubSeq(varmapper[i], 1, 2) = <<"x", "_">>}

\* the gene maximum of the column of time point t is below 0.1 * x_max
LowColumn(P, t) == \A i \in GeneRows(mg.varmapper) : 10 * P[i][t + 1] < mg.x_max

\* the time points after t0
PostT0 == 1..(Len(tspan) - 1)

\* C1: a worker that has returned holds a trajectory with no time point
\* after t0 whose gene maximum is below 0.1 * x_max, and a worker that goes
\* round its loop again has just produced a trajectory with such a time
\* point (so a trajectory without one ends the loop).
C1_ReturnsOnlyAccepted ==
    \A c \in DOMAIN job :
        /\ job[c].pc = "returned" =>
              /\ job[c].ret.traj = job[c].P
              /\ \A t \in PostT0 : ~LowColumn(job[c].P, t)
        /\ (job[c].pc = "running" /\ job[c].trys > 0) =>
              \E t \in PostT0 : LowColumn(job[c].P, t)

\* a worker has returned after a rejected attempt
C1_Witness ==
    \E c \in DOMAIN job : job[c].pc = "returned" /\ job[c].trys >= 2

\* C2: the k-th integration of the worker of cell c uses the seed
\* c + init_seed + 1000 * k, so the seeds of one worker strictly increase.
C2_SeedPerAttempt ==
    \A c \in DOMAIN job :
        /\ \A k \in 1..Len(job[c].seeds) :
              job[c].seeds[k] = c + init_seed + 1000 * k
        /\ \A k \in 1..(Len(job[c].seeds) - 1) :
              job[c].seeds[k] < job[c].seeds[k + 1]
        /\ job[c].pc \in {"running", "returned", "raised", "terminated"} =>
              Len(job[c].seeds) >= job[c].trys

\* a worker has integrated at least twice
C2_Witness == \E c \in DOMAIN job : Len(job[c].seeds) >= 2

\* the Experiment call is past its fan-out
PastFanout ==
    \/ ex.pc \in {"aggregate", "concat", "cluster", "returned"}
    \/ ex.pc = "raised" /\ ex.stage = "cluster"

\* C4: in parallel mode entry i of the collected list is what the worker
\* dispatched with cellid = i returned, and past the fan-out the list has
\* num_cells entries and every worker has returned.
C4_SubmissionOrder ==
    settings.doParallel =>
        /\ \A i \in 1..Len(ex.states) :
              /\ job[i - 1].pc = "returned"
              /\ job[i - 1].args.cellid = i - 1
              /\ ex.states[i] = job[i - 1].ret
        /\ PastFanout =>
              /\ Len(ex.states) = settings.num_cells
              /\ \A c \in Cells : job[c].pc = "returned"
        /\ ~PastFanout => ex.final_states = <<>> /\ ex.avg_traj = <<>>

\* two workers were collected, the first of which needed more attempts
C4_Witness ==
    /\ settings.doParallel
    /\ ex.pc = "aggregate"
    /\ settings.num_cells >= 2
    /\ job[0].trys > job[1].trys
    /\ job[0].ret /= job[1].ret

\* C8: an Experiment that gets as far as the clustering step writes no
\* ClusterIds.csv when nClusters = 1, and when nClusters > 1 it returns and
\* has written ClusterIds.csv with one row per cell, E0..E<num_cells-1>.
C8_ClusterIds ==
    LET path == OutPrefix \o ClusterIdsCsv
        done == ex.pc = "returned" \/ (ex.pc = "raised" /\ ex.stage = "cluster")
    IN  /\ settings.nClusters = 1 => path \notin DOMAIN fs
        /\ (done /\ settings.nClusters > 1) =>
              /\ ex.pc = "returned"
              /\ path \in DOMAIN fs
              /\ fs[path].index =
                    [k \in 1..settings.num_cells |-> <<"E">> \o Str(k - 1)]

\* C9: the mode is multi-steady-state exactly for a list; for every table,
\* the empty one included, the shared vector is the template (1.0 for
\* genes, 20 for listed proteins, row 0 laid over it), the adjustment step
\* is on, and the set-up does not fail on the table.
C9_ModeByType ==
    ex.pc \notin {"idle", "called"} =>
        /\ ex.multi_ss <=> (icsDF.kind = "list")
        /\ icsDF.kind = "table" =>
              /\ ~(ex.pc = "raised" /\ ex.stage = "setup" /\ ex.exc = "KeyError")
              /\ ex.pc /= "raised" => ex.argdict.get_prot
        /\ icsDF.kind = "list" /\ ex.pc /= "raised" => ~ex.argdict.get_prot

\* C10: without sampling and without proteins the returned table has one
\* row per gene, labelled by the gene names, and the columns
\* E<c>_1 .. E<c>_<T-1> of cell 0, then of cell 1, and so on.
C10_ResultShape ==
    (ex.pc = "returned" /\ ~settings.sample_cells /\ mg.proteinlist = <<>>) =>
        LET nT == Len(tspan) - 1
            table == ex.ret[1]
        IN  /\ Len(table.index) = Len(mg.genelist)
            /\ Range(table.index) = Range(mg.genelist)
            /\ \A k \in 1..Len(table.index) :
                  SubSeq(table.index[k], 1, 2) /= <<"x", "_">>
            /\ table.columns =
                  [k \in 1..(settings.num_cells * nT) |->
                      <<"E">> \o Str((k - 1) \div nT) \o <<"_">>
                         \o Str(((k - 1) % nT) + 1)]
            /\ Len(table.data) = Len(mg.genelist)
            /\ \A r \in 1..Len(table.data) :
                  Len(table.data[r]) = settings.num_cells * nT

\* a table of two genes, two cells and two time points after t0 was returned
C10_Witness ==
    /\ ex.pc = "returned"
    /\ ~settings.sample_cells
    /\ Len(mg.genelist) = 2
    /\ settings.num_cells = 2
    /\ Len(tspan) = 3

\* the two calls of Experiment have both been made and the first returned
BothCalled == first.set /\ first.pc = "returned"

\* what the worker of a cell is handed: seed, cellid, initial vector and
\* parameter vector
Handout(args) ==
    <<args.seed, args.cellid, args.ss, args.get_prot,
      ParList(args.allParameters, args.parNames)>>

\* the second call hands every cell what the first handed it, does not
\* raise, and returns the first call's result table and final states
SameAsFirst ==
    /\ ex.pc /= "raised"
    /\ \A c \in Cells :
          job[c].pc /= "idle" => Handout(job[c].args) = Handout(first.handed[c])
    /\ ex.pc = "returned" =>
          /\ ex.ret[1] = first.ret[1]
          /\ ex.ret[2] = first.ret[2]

\* C3: with an integrator that is a function of initial vector, parameters
\* and seed, the call with doParallel flipped hands every cell the same
\* seed, cellid, initial vector and parameter vector as the first call and
\* returns the same result table and the same final states.
C3_SameResults == BothCalled => SameAsFirst

\* C5: between two combinations and on normal completion of
\* startPerturbations every parameter has the value it had at the call, and
\* the parameter names are those of the call.
C5_ParsRestored ==
    sp.pc \in {"loop", "returned"} =>
        /\ DOMAIN mg.pars = DOMAIN sp.at_call.pars
        /\ \A n \in DOMAIN mg.pars : mg.pars[n] = sp.at_call.pars[n]

\* startPerturbations completed after three pairwise re-runs, each of which
\* ran on parameters other than those of the call
C5_Witness ==
    /\ sp.pc = "returned"
    /\ ~sp.single
    /\ Len(sp.runs) = 3
    /\ \A k \in 1..Len(sp.runs) : sp.runs[k].pars /= sp.at_call.pars

\* the gene indices of the model
GeneIndices ==
    {IntOf(SubSeq(mg.varmapper[i], 4, Len(mg.varmapper[i]))) :
        i \in GeneRows(mg.varmapper)}

\* the directory of a combination
PerturbationPath(prefix, combination) ==
    prefix \o <<"/", "P", "e", "r", "t", "u", "r", "b", "a", "t", "i", "o", "n", "_">>
        \o Join(<<"_">>, [k \in 1..Len(combination) |-> Str(combination[k])])

\* C6: when startPerturbations completes it has made one re-run per
\* combination: [g] for every gene index g with single, every unordered
\* pair of distinct gene indices once without; every re-run wrote its cell
\* files under <outprefix at the call>/Perturbation_<indices joined by _>,
\* and no two re-runs have the same directory.
C6_OneRunPerCombination ==
    sp.pc = "returned" =>
        LET n == Cardinality(GeneIndices)
            runs == sp.runs
            set(k) == Range(runs[k].perturbations)
        IN  /\ sp.single =>
                  /\ Len(runs) = n
                  /\ \A k \in 1..Len(runs) : Len(runs[k].perturbations) = 1
                  /\ {set(k) : k \in 1..Len(runs)} = {{g} : g \in GeneIndices}
            /\ ~sp.single =>
                  /\ 2 * Len(runs) = n * (n - 1)
                  /\ \A k \in 1..Len(runs) :
                        /\ Len(runs[k].perturbations) = 2
                        /\ runs[k].perturbations[1] /= runs[k].perturbations[2]
                  /\ {set(k) : k \in 1..Len(runs)} =
                        {{g, h} : g, h \in GeneIndices} \ {{g} : g \in GeneIndices}
            /\ \A j, k \in 1..Len(runs) :
                  j /= k => /\ set(j) /= set(k)
                            /\ runs[j].outprefix /= runs[k].outprefix
            /\ \A k \in 1..Len(runs) :
                  /\ runs[k].outprefix =
                        PerturbationPath(sp.at_call.outprefix, runs[k].perturbations)
                  /\ \A c \in Cells : CellFile(runs[k].outprefix, c) \in DOMAIN fs

\* startPerturbations completed on three genes, pairwise
C6_Witness ==
    /\ sp.pc = "returned"
    /\ ~sp.single
    /\ Cardinality(GeneIndices) = 3
    /\ Len(sp.runs) = 3

\* C7: the final_states mapping that startPerturbations returns has one
\* entry per combination and one baseline entry, and the baseline entry is
\* previous_run['final_states'].
C7_BaselineEntry ==
    sp.pc = "returned" =>
        LET lab == IF sp.single THEN <<"[", "0", "]">>
                   ELSE <<"[", "0", ",", " ", "0", "]">>
        IN  /\ Cardinality(DOMAIN sp.final_states) = Len(sp.list_perturbations) + 1
            /\ lab \in DOMAIN sp.final_states
            /\ sp.final_states[lab] = previous_run.final_states

\* the slots of the variable map tagged x_ or p_
TaggedSlots(varmapper) ==
    {i \in 1..Len(varmapper) :
        SubSeq(varmapper[i], 1, 2) \in {<<"x", "_">>, <<"p", "_">>}}

\* C11: with an override row, every slot tagged x_ or p_ of the shared
\* initial vector holds the override's value when the override names the
\* species and 0.01 otherwise; no slot is exactly zero.
C11_OverrideFloor ==
    (ex.pc \notin {"idle", "called"} /\ icsDF.kind = "table" /\ Len(icsDF.rows) > 0) =>
        LET row == icsDF.rows[1]
        IN  \A i \in TaggedSlots(mg.varmapper) :
               LET species == SubSeq(mg.varmapper[i], 3, Len(mg.varmapper[i]))
               IN  /\ ex.ss[i] /= 0
                   /\ (\A k \in 1..Len(row.Genes) : row.Genes[k] /= species) =>
                          ex.ss[i] = 1
                   /\ \A k \in 1..Len(row.Genes) :
                          (row.Genes[k] = species
                              /\ \A j \in (k + 1)..Len(row.Genes) : row.Genes[j] /= species)
                          => ex.ss[i] = row.Values[k]

\* C12: a worker that has returned returns the state of every species at
\* the last time point of its accepted trajectory, and the trajectory of
\* every species at the time points 1..T-1, the column of t0 left out.
C12_ReturnedPair ==
    \A c \in DOMAIN job :
        job[c].pc = "returned" =>
            LET P == job[c].P
                nT == Len(job[c].args.tspan)
                nS == Len(job[c].args.varmapper)
            IN  /\ job[c].ret.final = [i \in 1..nS |-> P[i][nT]]
                /\ job[c].ret.traj = [i \in 1..nS |-> [k \in 1..(nT - 1) |-> P[i][k + 1]]]

\* the sum over the cells 0..c of entry (i, t) of the returned trajectories
RECURSIVE CellSum(_, _, _)
CellSum(c, i, t) ==
    IF c < 0 THEN 0 ELSE job[c].ret.traj[i][t] + CellSum(c - 1, i, t)

\* C13: the mean trajectory Experiment returns has a row for every species
\* and a column for every other time point (0, 2, 4, ...) of the workers'
\* trajectories; each entry is the sum over all num_cells workers, and the
\* divisor is the configured cell count.
C13_MeanTrajectory ==
    ex.pc = "returned" =>
        LET avg == ex.ret[3]
            nS == Len(mg.varmapper)
            nC == Len(job[0].ret.traj[1])
            kept == (nC + 1) \div 2
        IN  /\ avg.n_traj = settings.num_cells
            /\ Len(avg.sum) = nS
            /\ \A i \in 1..Len(avg.sum) :
                  /\ Len(avg.sum[i]) = kept
                  /\ \A k \in 1..Len(avg.sum[i]) :
                        i <= nS /\ 2 * k - 1 <= nC =>
                            avg.sum[i][k] = CellSum(settings.num_cells - 1, i, 2 * k - 1)

\* the rows of the gene species, in the order of the variable map
GeneRowList(varmapper) ==
    SelectSeq([i \in 1..Len(varmapper) |-> i], LAMBDA i : i \in GeneRows(varmapper))

\* the time index a column label E<cellid>_<time> names
LabelTime(label, cellid) == IntOf(SubSeq(label, Len(Str(cellid)) + 3, Len(label)))

\* the files of the worker of cell c hold its returned trajectory: E<c>.csv
\* the gene rows at the time points 1..T-1, E<c>-cell.csv the gene rows at
\* the sampled time point
FilesHoldReturned(c) ==
    LET args == job[c].args
        traj == job[c].ret.traj
        rows == GeneRowList(args.varmapper)
        nT == Len(args.tspan)
        cell == CellFile(settings.outprefix, c)
        sample == SampleFile(settings.outprefix, c)
    IN  /\ cell \in DOMAIN fs
        /\ fs[cell].data =
              [r \in 1..Len(rows) |-> [k \in 1..(nT - 1) |-> traj[rows[r]][k + 1]]]
        /\ settings.sample_cells =>
              /\ sample \in DOMAIN fs
              /\ fs[sample].data =
                    [r \in 1..Len(rows) |->
                        <<traj[rows[r]][LabelTime(fs[sample].columns[1], c) + 1]>>]

\* C14: from the return of the worker of cell i on, and so whenever
\* Experiment reads the files back, E<i>.csv (and with sampling
\* E<i>-cell.csv) holds the data of the trajectory worker i returned; the
\* read-back starts only when every worker has returned.
C14_FilesOfAcceptedAttempt ==
    /\ \A c \in DOMAIN job : job[c].pc = "returned" => FilesHoldReturned(c)
    /\ ex.pc \in {"concat", "cluster", "returned"} =>
          \A c \in Cells : job[c].pc = "returned"

\* the files are about to be read back, sampling is on, and a worker
\* returned after a rejected attempt
C14_Witness ==
    /\ ex.pc = "concat"
    /\ settings.sample_cells
    /\ \E c \in Cells : job[c].trys >= 2

\* the last integration of the worker of cell c came back and its
\* trajectory has a time point after t0 that the heuristic rejects
LastRejected(w) ==
    /\ w.trys > 0
    /\ Len(w.seeds) = w.trys
    /\ \E t \in PostT0 : LowColumn(w.P, t)

\* a worker whose last attempt was rejected has neither returned nor
\* raised, whatever the number of attempts; a worker that has returned did
\* so on an attempt that was not rejected; a worker raises only what the
\* integrator or the return statement raised; and Experiment is at the
\* aggregation only when every worker has returned
RetryState ==
    /\ \A c \in DOMAIN job :
          /\ LastRejected(job[c]) => job[c].pc \notin {"returned", "raised"}
          /\ job[c].pc = "returned" =>
                /\ Len(job[c].seeds) = job[c].trys
                /\ ~LastRejected(job[c])
          /\ job[c].pc = "raised" =>
                /\ job[c].exc \in {"FloatingPointError", "IndexError"}
                /\ job[c].exc = "FloatingPointError" => Len(job[c].seeds) = job[c].trys + 1
                /\ job[c].exc = "IndexError" => ~LastRejected(job[c])
    /\ ex.pc \in {"aggregate", "concat", "cluster", "returned"} =>
          \A c \in Cells : job[c].pc = "returned"

\* a rejected attempt leaves the worker in the loop, an attempt that is not
\* rejected takes it out of the loop, and a worker that is out of the loop
\* does not integrate again
RetryStep ==
    \A c \in DOMAIN job :
        /\ (job[c].pc = "running" /\ job'[c].trys = job[c].trys + 1) =>
              (job'[c].pc = "running" <=> LastRejected(job'[c]))
        /\ job[c].pc \in {"returned", "raised"} =>
              (job'[c].seeds = job[c].seeds /\ job'[c].pc = job[c].pc)

C16_NoPartialResult ==
    /\ (\E c \in DOMAIN job : job[c].pc = "raised") =>
          /\ ex.pc \in {"fanout", "raised"}
          /\ ex.final_states = <<>>
          /\ ex.avg_traj = <<>>
          /\ ex.ret = <<>>
    /\ (ex.pc = "raised" /\ ex.stage = "fanout") =>
          /\ \E c \in DOMAIN job : job[c].pc = "raised" /\ job[c].exc = ex.exc
          /\ ex.ret = <<>>
    /\ ex.pc = "returned" =>
          /\ Len(ex.states) = settings.num_cells
          /\ Len(ex.ret[2]) = settings.num_cells
          /\ \A c \in Cells : job[c].pc = "returned"

\* Experiment has raised the error of the second worker after the first
\* worker returned
C16_Witness ==
    /\ ex.pc = "raised"
    /\ ex.stage = "fanout"
    /\ settings.num_cells >= 2
    /\ job[0].pc = "returned"
    /\ job[1].pc = "raised"
    /\ ex.exc = "FloatingPointError"

\* the parameter table the re-run of a combination is to run on: the table
\* at the call with the decay parameter of every gene of the combination
\* multiplied by the factor once
ExpectedPars(combination) ==
    [n \in DOMAIN sp.at_call.pars |->
        IF \E k \in 1..Len(combination) :
              n = <<"m", "_", "g">> \o Str(combination[k])
        THEN sp.at_call.pars[n] * sp.level
        ELSE sp.at_call.pars[n]]

\* C17: while the re-run of a combination is running, the parameter table
\* is the table at the call except that the decay parameter m_g<i> of every
\* gene i of the combination is multiplied by the factor once; the re-run
\* was started on that table and hands it to its workers.
C17_IndependentPerturbations ==
    sp.pc = "experiment" =>
        LET combination == sp.list_perturbations[sp.k + 1]
        IN  /\ mg.pars = ExpectedPars(combination)
            /\ sp.runs[Len(sp.runs)].pars = ExpectedPars(combination)
            /\ \A c \in DOMAIN job :
                  job[c].pc /= "idle" =>
                      job[c].args.allParameters = ExpectedPars(combination)

\* the third pairwise re-run is running with factor 2 and a worker has
\* been called
C17_Witness ==
    /\ sp.pc = "experiment"
    /\ ~sp.single
    /\ sp.level = 2
    /\ sp.k = 2
    /\ \E c \in DOMAIN job : job[c].pc = "running"

\* C18: in the re-run of every combination the worker of cell i is handed
\* previous_run['final_states'][i] with get_prot false and integrates from
\* that vector as it is, in parallel and in sequential mode.
C18_BaselineStart ==
    sp.pc = "experiment" =>
        \A c \in DOMAIN job :
            job[c].pc /= "idle" =>
                /\ job[c].args.cellid = c
                /\ job[c].args.ss = previous_run.final_states[c + 1]
                /\ ~job[c].args.get_prot
                /\ Len(job[c].seeds) > 0 =>
                      /\ job[c].y0.vec = previous_run.final_states[c + 1]
                      /\ ~job[c].y0.adjusted

\* in a re-run after the first, whose final states differ from those of
\* the baseline, the worker of the second cell has integrated
C18_Witness ==
    /\ sp.pc = "experiment"
    /\ sp.k >= 1
    /\ \E key \in DOMAIN sp.final_states :
          sp.final_states[key] /= previous_run.final_states
    /\ settings.num_cells >= 2
    /\ Len(job[1].seeds) > 0
    /\ previous_run.final_states[1] /= previous_run.final_states[2]

\* C19: during the re-run of a combination settings['outprefix'] is the
\* prefix of the call followed by /Perturbation_<indices joined by _>, and
\* the re-run and its workers write under it; when startPerturbations has
\* completed, settings['outprefix'] is the prefix of the call.
C19_OutprefixRestored ==
    /\ sp.pc = "experiment" =>
          LET path == PerturbationPath(sp.at_call.outprefix,
                                       sp.list_perturbations[sp.k + 1])
          IN  /\ settings.outprefix = path
              /\ \A c \in DOMAIN job :
                    job[c].pc /= "idle" => job[c].args.outPrefix = path
    /\ sp.pc = "returned" => settings.outprefix = sp.at_call.outprefix

\* startPerturbations completed after three re-runs
C19_Witness ==
    /\ sp.pc = "returned"
    /\ Len(sp.runs) = 3
    /\ settings.outprefix = OutPrefix
    /\ \A k \in 1..3 : sp.runs[k].outprefix /= OutPrefix

\* C20: when the re-run of a combination raises, startPerturbations ends
\* with that error, the parameter table still holds the perturbed values of
\* that combination, and settings['outprefix'] is still the directory of
\* that combination.
C20_NoRestoreOnError ==
    (sp.pc = "raised" /\ sp.k < Len(sp.list_perturbations)) =>
        LET combination == sp.list_perturbations[sp.k + 1]
        IN  /\ sp.exc \in {"FloatingPointError", "IndexError", "NameError", "KeyError"}
            /\ mg.pars = ExpectedPars(combination)
            /\ settings.outprefix = PerturbationPath(sp.at_call.outprefix, combination)
            /\ Len(sp.runs) = sp.k + 1

\* the second re-run raised after the first had completed, and the table
\* differs from the table at the call
C20_Witness ==
    /\ sp.pc = "raised"
    /\ sp.exc = "FloatingPointError"
    /\ sp.k = 1
    /\ mg.pars /= sp.at_call.pars
    /\ settings.outprefix /= sp.at_call.outprefix

\* ---------------------------------------------------------------------
\* C21: for a model whose protein list is non-empty, an Experiment whose
\* initial-condition source is one that a model with an empty protein list
\* gets through its set-up with (a table with a row, or a non-empty list)
\* does not raise during its set-up: it builds the result index and goes
\* on to the fan-out, so no call ends before a worker is dispatched.
C21_ProteinIndex ==
    (/\ ex.pc \notin {"idle", "called"}
     /\ mg.proteinlist /= <<>>
     /\ \/ icsDF.kind = "table" /\ Len(icsDF.rows) > 0
        \/ icsDF.kind = "list" /\ Len(icsDF.list) > 0)
      => ~(ex.pc = "raised" /\ ex.stage = "setup")

====
